---- MODULE Spec2Model ----
(***************************************************************************)
(* Billing credit ledger of the FastAPI template: the cost model, the      *)
(* BillingService operations over the four billing tables, and the Creem   *)
(* webhook handler that dispatches to them.                                *)
(*                                                                         *)
(* Every repository call (one SQL statement followed by flush/refresh) is  *)
(* one step of a database session; a session's writes stay private until   *)
(* the session commits.  Statements follow READ COMMITTED: a SELECT sees    *)
(* committed rows plus the session's own writes, an UPDATE waits for the    *)
(* row lock and then overwrites the columns the ORM marked as changed, an   *)
(* INSERT waits for an uncommitted insert of the same unique key and fails  *)
(* with an IntegrityError when the key is committed.                        *)
(***************************************************************************)
EXTENDS Integers, Sequences, FiniteSets, TLC

VARIABLES
    settings,               \* app.core.config.settings (fixed after start-up)
    credit_wallets,         \* table credit_wallets: committed rows, in creation order
    subscriptions,          \* table subscriptions: committed rows, in creation order
    token_ledgers,          \* table token_ledgers: committed rows, in creation order
    payment_transactions,   \* table payment_transactions: committed rows
    sess,                   \* per database session: the running call and its locals
    calls                   \* number of requests accepted so far

vars == <<settings, credit_wallets, subscriptions, token_ledgers,
          payment_transactions, sess, calls>>

tables == <<credit_wallets, subscriptions, token_ledgers, payment_transactions>>

----------------------------------------------------------------------------
(* Bounds of the model *)

\* no request is accepted once this many have been
MaxCalls == 3

\* commit_usage is not started once this many ledger rows exist or are under way
MaxLedger == 2

Sessions == {"s1", "s2"}

SessionOrder(s) == IF s = "s1" THEN 1 ELSE 2

Users == {"u1", "u2"}

\* total_tokens / estimated_tokens values the callers pass
TokenChoices == {0, 2500, 60000, 2051000}

ModelChoices == {"gpt-4o-mini"}

----------------------------------------------------------------------------
(* Configuration: the defaults of Settings, with the deployment values     *)
(* (webhook secret, product ids) a deployment must set for billing to run  *)

DEFAULT_BILLING_MONTHLY_CREDITS == 50
DEFAULT_BILLING_TOKENS_PER_CREDIT == 1000
DEFAULT_BILLING_CHARS_PER_TOKEN == 4

\* the integer digits of Numeric(10, 2): amounts below 10^8 fit
NumericLimit == 100000000

\* a float multiplier m is kept as the integer 1000 * m; the configured
\* multipliers are multiples of 1/8, which a double holds exactly
MultiplierScale == 1000

DeployedSettings ==
    [ BILLING_MONTHLY_CREDITS |-> DEFAULT_BILLING_MONTHLY_CREDITS,
      BILLING_TOKENS_PER_CREDIT |-> DEFAULT_BILLING_TOKENS_PER_CREDIT,
      BILLING_CHARS_PER_TOKEN |-> DEFAULT_BILLING_CHARS_PER_TOKEN,
      BILLING_CREDIT_PACKS |->
          << [credits |-> 2000, provider_product_id |-> "prod_pack_2000"],
             [credits |-> 5000, provider_product_id |-> ""] >>,
      BILLING_MODEL_MULTIPLIERS |-> [default |-> 1000],
      BILLING_PROVIDER |-> "creem",
      CREEM_API_KEY |-> "creem_key",
      CREEM_WEBHOOK_SECRET |-> "whsec",
      CREEM_SUBSCRIPTION_PRODUCT_ID |-> "prod_sub" ]

\* the defaults of Settings as they stand: no API key, no webhook secret, no
\* product ids
DefaultSettings ==
    [ BILLING_MONTHLY_CREDITS |-> DEFAULT_BILLING_MONTHLY_CREDITS,
      BILLING_TOKENS_PER_CREDIT |-> DEFAULT_BILLING_TOKENS_PER_CREDIT,
      BILLING_CHARS_PER_TOKEN |-> DEFAULT_BILLING_CHARS_PER_TOKEN,
      BILLING_CREDIT_PACKS |->
          << [credits |-> 2000, provider_product_id |-> ""],
             [credits |-> 5000, provider_product_id |-> ""] >>,
      BILLING_MODEL_MULTIPLIERS |-> [default |-> 1000],
      BILLING_PROVIDER |-> "creem",
      CREEM_API_KEY |-> "<None>",      \* None
      CREEM_WEBHOOK_SECRET |-> "",
      CREEM_SUBSCRIPTION_PRODUCT_ID |-> "" ]

----------------------------------------------------------------------------
(* Helpers *)

Min(a, b) == IF a <= b THEN a ELSE b

Max(a, b) == IF a >= b THEN a ELSE b

\* math.ceil(a / b) for b > 0
Ceil(a, b) == -((-a) \div b)

\* Python's None among string values
None == "<None>"

\* Python truthiness of an optional string
Falsy(x) == x \in {"", None}

\* Python's `x or y`
Or(x, y) == IF Falsy(x) THEN y ELSE x

\* dict.get(key)
Get(d, key) == IF key \in DOMAIN d THEN d[key] ELSE None

EmptyDict == [k \in {} |-> None]

Dict1(key, value) == [k \in {key} |-> value]

\* dict.update(other)
Update(d, other) ==
    [k \in DOMAIN d \cup DOMAIN other |-> IF k \in DOMAIN other THEN other[k] ELSE d[k]]

RECURSIVE SumSeq(_)
SumSeq(q) == IF q = <<>> THEN 0 ELSE Head(q) + SumSeq(Tail(q))

\* the rows of a table that satisfy a user filter, in table order
RowsOfUser(table, user_id) == SelectSeq(table, LAMBDA r : r.user_id = user_id)

----------------------------------------------------------------------------
(* Python floats: IEEE 754 binary64.  A non-negative double is kept as      *)
(* [bits, scale]: the binary digits of an integer, most significant first  *)
(* and without leading zero, and the number of them that stand after the   *)
(* binary point; its value is int(bits) / 2^scale.                          *)

\* binary digits of the significand of a double
Precision == 53

\* F of the value of v: an intermediate result is computed once and then used
With(v, F(_)) == CHOOSE r \in { F(x) : x \in {v} } : TRUE

\* the arithmetic on digit sequences works on this many digits at a time
ChunkBits == 8

\* the last `width` binary digits of a natural number, leading zeros kept
Pad(n, width) == [i \in 1..width |-> (n \div 2^(width - i)) % 2]

\* the binary digits of a natural number below 2^31, <<>> for 0
Bits(n) ==
    With(n, LAMBDA m :
        With(Cardinality({k \in 0..30 : m \div 2^k > 0}), LAMBDA width : Pad(m, width)))

\* the natural number with these binary digits
RECURSIVE IntOf(_)
IntOf(bits) ==
    IF bits = <<>> THEN 0
    ELSE With(SubSeq(bits, 1, Len(bits) - 1),
              LAMBDA front : 2 * IntOf(front) + bits[Len(bits)])

\* int(bits) + 1: the digits after the last 0 become 0, that 0 becomes 1
Increment(bits) ==
    IF \A i \in DOMAIN bits : bits[i] = 1
    THEN <<1>> \o [i \in DOMAIN bits |-> 0]
    ELSE LET last == CHOOSE k \in DOMAIN bits :
                        bits[k] = 0 /\ \A j \in (k + 1)..Len(bits) : bits[j] = 1
         IN [i \in DOMAIN bits |->
                IF i < last THEN bits[i] ELSE IF i = last THEN 1 ELSE 0]

\* int(bits) * b + carry for a small natural b, chunk by chunk from the right
RECURSIVE MulSmall(_, _, _)
MulSmall(bits, b, carry) ==
    IF Len(bits) <= ChunkBits THEN Bits(IntOf(bits) * b + carry)
    ELSE With([front |-> SubSeq(bits, 1, Len(bits) - ChunkBits),
               v |-> IntOf(SubSeq(bits, Len(bits) - ChunkBits + 1, Len(bits))) * b
                        + carry],
              LAMBDA t : MulSmall(t.front, b, t.v \div 2^ChunkBits)
                            \o Pad(t.v % 2^ChunkBits, ChunkBits))

\* the digits of rem / d that follow `bits`, a chunk at a time, until the
\* division comes out even or more digits than the significand holds are
\* there; sticky tells whether something is left beyond the digits
RECURSIVE LongDivision(_, _, _, _)
LongDivision(bits, scale, rem, d) ==
    IF rem = 0 \/ Len(bits) > Precision
    THEN [bits |-> bits, scale |-> scale, sticky |-> rem # 0]
    ELSE With([bits |-> IF bits = <<>> THEN Bits((2^ChunkBits * rem) \div d)
                        ELSE bits \o Pad((2^ChunkBits * rem) \div d, ChunkBits),
               scale |-> scale + ChunkBits,
               rem |-> (2^ChunkBits * rem) % d],
              LAMBDA t : LongDivision(t.bits, t.scale, t.rem, d))

\* round to nearest, ties to even: the result of every float operation
RoundToNearestEven(bits, scale, sticky) ==
    IF Len(bits) <= Precision THEN [bits |-> bits, scale |-> scale]
    ELSE With([keep |-> SubSeq(bits, 1, Precision),
               rest |-> SubSeq(bits, Precision + 1, Len(bits))],
              LAMBDA t :
                LET half == t.rest[1] = 1
                    more == sticky \/ \E i \in 2..Len(t.rest) : t.rest[i] = 1
                    up == half /\ (more \/ t.keep[Precision] = 1)
                IN [bits |-> IF up THEN Increment(t.keep) ELSE t.keep,
                    scale |-> scale - Len(t.rest)])

\* a / b of two ints, a >= 0 and b > 0 (true division, correctly rounded)
FloatDiv(a, b) ==
    With(LongDivision(Bits(a \div b), 0, a % b, b),
         LAMBDA q : RoundToNearestEven(q.bits, q.scale, q.sticky))

\* x * (b / 2^shift) for a double x and the double b / 2^shift, b a natural
FloatMul(x, b, shift) ==
    With(x, LAMBDA f :
        IF b = 0 \/ f.bits = <<>> THEN [bits |-> <<>>, scale |-> 0]
        ELSE With(MulSmall(f.bits, b, 0),
                  LAMBDA product : RoundToNearestEven(product, f.scale + shift, FALSE)))

\* int(x) of a non-negative double: the digits before the binary point
FloatFloor(x) ==
    With(x, LAMBDA f :
        IF f.scale <= 0 THEN IntOf(f.bits) * 2^(-f.scale)
        ELSE IF Len(f.bits) <= f.scale THEN 0
        ELSE IntOf(SubSeq(f.bits, 1, Len(f.bits) - f.scale)))

\* math.ceil(x) of a non-negative double
FloatCeil(x) ==
    With(x, LAMBDA f :
        IF f.scale <= 0 THEN FloatFloor(f)
        ELSE LET first == Max(Len(f.bits) - f.scale, 0) + 1
             IN IF \E i \in first..Len(f.bits) : f.bits[i] = 1
                THEN FloatFloor(f) + 1 ELSE FloatFloor(f))

----------------------------------------------------------------------------
(* Cost model: services/billing.py *)

\* variant: the quotient is cut off instead of rounded up
estimate_tokens_from_text_floor(cfg, text_len) ==
    IF text_len = 0 THEN 0
    ELSE Max(1, FloatFloor(FloatDiv(text_len, Max(cfg.BILLING_CHARS_PER_TOKEN, 1))))

estimate_tokens_from_text(cfg, text_len) ==
    IF text_len = 0 THEN 0
    ELSE Max(1, FloatCeil(FloatDiv(text_len, Max(cfg.BILLING_CHARS_PER_TOKEN, 1))))

\* history_lens: len(msg.get("content", "")) of each message of the history
estimate_prompt_tokens(cfg, history_lens, message_len) ==
    LET total_chars == SumSeq(history_lens) + message_len IN
    IF total_chars <= 0 THEN 0
    ELSE Max(1, FloatCeil(FloatDiv(total_chars, Max(cfg.BILLING_CHARS_PER_TOKEN, 1))))

get_model_multiplier(cfg, model_name) ==
    LET multipliers == cfg.BILLING_MODEL_MULTIPLIERS IN
    IF ~Falsy(model_name) /\ model_name \in DOMAIN multipliers
    THEN multipliers[model_name]
    ELSE IF "default" \in DOMAIN multipliers THEN multipliers["default"]
         ELSE MultiplierScale

\* math.ceil((total_tokens / tokens_per_credit) * multiplier): a float
\* division, a float multiplication, then the ceiling of the product
calculate_cost_credits(cfg, total_tokens, model_name) ==
    IF total_tokens <= 0 THEN 0
    ELSE LET tokens_per_credit == Max(cfg.BILLING_TOKENS_PER_CREDIT, 1)
             multiplier == get_model_multiplier(cfg, model_name)
             eighths == multiplier \div (MultiplierScale \div 8)
             quotient == FloatDiv(total_tokens, tokens_per_credit)
         IN IF multiplier >= 0
            THEN FloatCeil(FloatMul(quotient, eighths, 3))
            ELSE -FloatFloor(FloatMul(quotient, -eighths, 3))

----------------------------------------------------------------------------
(* Rows and session records *)

WalletRow(user_id, monthly_remaining, prepaid_balance) ==
    [user_id |-> user_id, monthly_remaining |-> monthly_remaining,
     prepaid_balance |-> prepaid_balance]

\* a session that runs no call
Idle ==
    [ pc |-> "idle", call |-> "", svc |-> "",
      user_id |-> None, model_name |-> None, total_tokens |-> 0,
      external_id |-> None, credits |-> 0, amount |-> <<>>,
      provider_subscription_id |-> None, plan_name |-> None,
      kind |-> None, pack_credits |-> <<>>, checkout |-> <<>>,
      text_len |-> 0, history_lens |-> <<>>, admitted |-> <<>>,
      wallet |-> <<>>, w_mode |-> "none",
      cost |-> 0, monthly_deducted |-> 0, prepaid_deducted |-> 0, overage |-> 0,
      sub_idx |-> 0, subscription |-> <<>>, s_mode |-> "none",
      p_ledger |-> <<>>, p_txn |-> <<>>,
      result |-> "", reason |-> "", ret |-> <<>> ]

Running(s) == sess[s].pc \notin {"idle", "done"}

\* what the caller is left with once the call is over: the arguments and the outcome
Finished(sr, result, reason, ret) ==
    [Idle EXCEPT !.pc = "done", !.call = sr.call, !.svc = sr.svc,
                 !.user_id = sr.user_id, !.model_name = sr.model_name,
                 !.total_tokens = sr.total_tokens,
                 !.external_id = sr.external_id, !.credits = sr.credits,
                 !.kind = sr.kind, !.pack_credits = sr.pack_credits,
                 !.checkout = sr.checkout,
                 !.text_len = sr.text_len, !.history_lens = sr.history_lens,
                 !.result = result, !.reason = reason, !.ret = ret]

\* get_db_context / the request's session dependency: an exception leaving the
\* block rolls the session back (its pending writes and row locks are dropped)
\* and propagates to the caller
Rollback(sr, error, details) == Finished(sr, error, "", details)

----------------------------------------------------------------------------
(* BillingService: the balance arithmetic of its three writers *)

\* variant: the whole cost is taken from the monthly allowance, with no floor at zero
commit_usage_deduct_unclamped(wallet, cost) ==
    [ monthly_deducted |-> cost, prepaid_deducted |-> 0, overage |-> 0,
      wallet |-> [wallet EXCEPT !.monthly_remaining = @ - cost] ]

\* variant: the overage forgets what the prepaid balance paid
commit_usage_deduct_overage_slip(wallet, cost) ==
    LET monthly_deducted == Min(wallet.monthly_remaining, cost)
        remaining == cost - monthly_deducted
        prepaid_deducted == Min(wallet.prepaid_balance, remaining)
    IN [ monthly_deducted |-> monthly_deducted,
         prepaid_deducted |-> prepaid_deducted,
         overage |-> cost - monthly_deducted,
         wallet |-> [wallet EXCEPT
                        !.monthly_remaining = @ - monthly_deducted,
                        !.prepaid_balance = @ - prepaid_deducted] ]

\* variant: the prepaid balance is charged before the monthly allowance
commit_usage_deduct_prepaid_first(wallet, cost) ==
    LET prepaid_deducted == Min(wallet.prepaid_balance, cost)
        remaining == cost - prepaid_deducted
        monthly_deducted == Min(wallet.monthly_remaining, remaining)
        overage == cost - monthly_deducted - prepaid_deducted
    IN [ monthly_deducted |-> monthly_deducted,
         prepaid_deducted |-> prepaid_deducted,
         overage |-> overage,
         wallet |-> [wallet EXCEPT
                        !.monthly_remaining = @ - monthly_deducted,
                        !.prepaid_balance = @ - prepaid_deducted] ]

\* commit_usage: monthly allowance first, then prepaid, the rest is overage
commit_usage_deduct(wallet, cost) ==
    LET monthly_deducted == Min(wallet.monthly_remaining, cost)
        remaining == cost - monthly_deducted
        prepaid_deducted == Min(wallet.prepaid_balance, remaining)
        overage == cost - monthly_deducted - prepaid_deducted
    IN [ monthly_deducted |-> monthly_deducted,
         prepaid_deducted |-> prepaid_deducted,
         overage |-> overage,
         wallet |-> [wallet EXCEPT
                        !.monthly_remaining = @ - monthly_deducted,
                        !.prepaid_balance = @ - prepaid_deducted] ]

\* variant: the grant also wipes the prepaid balance
grant_monthly_allowance_set_clears_prepaid(cfg, wallet) ==
    [wallet EXCEPT !.monthly_remaining = cfg.BILLING_MONTHLY_CREDITS,
                   !.prepaid_balance = 0]

\* variant: the allowance is added to what is left
grant_monthly_allowance_set_additive(cfg, wallet) ==
    [wallet EXCEPT !.monthly_remaining = @ + cfg.BILLING_MONTHLY_CREDITS]

\* grant_monthly_allowance: wallet.monthly_remaining = settings.BILLING_MONTHLY_CREDITS
grant_monthly_allowance_set(cfg, wallet) ==
    [wallet EXCEPT !.monthly_remaining = cfg.BILLING_MONTHLY_CREDITS]

\* variant: wallet.prepaid_balance = credits
apply_pack_purchase_add_assigns(wallet, credits) ==
    [wallet EXCEPT !.prepaid_balance = credits]

\* apply_pack_purchase: wallet.prepaid_balance += credits
apply_pack_purchase_add(wallet, credits) ==
    [wallet EXCEPT !.prepaid_balance = @ + credits]

\* variant: nobody is turned away
precheck_rejects_nobody(wallet, cost) == FALSE

\* variant: a wallet that holds exactly the cost is rejected too
precheck_rejects_at_equal(wallet, cost) ==
    wallet.monthly_remaining + wallet.prepaid_balance <= cost

\* precheck: the comparison that admits or rejects
precheck_rejects(wallet, cost) ==
    wallet.monthly_remaining + wallet.prepaid_balance < cost

----------------------------------------------------------------------------
(* The store: what a statement of one session sees and waits for *)

\* the wallet rows a SELECT ... WHERE user_id = u of session s returns
VisibleWallets(s, user_id) ==
    IF sess[s].w_mode = "insert" THEN sess[s].wallet
    ELSE IF sess[s].w_mode = "update" THEN sess[s].wallet
    ELSE RowsOfUser(credit_wallets, user_id)

\* another session holds the row lock of the user's wallet (an uncommitted UPDATE)
WalletLockedByOther(s, user_id) ==
    \E t \in Sessions \ {s} : sess[t].w_mode = "update" /\ sess[t].user_id = user_id

\* another session has an uncommitted INSERT of a wallet for the user
WalletInsertPending(s, user_id) ==
    \E t \in Sessions \ {s} : sess[t].w_mode = "insert" /\ sess[t].user_id = user_id

\* credit_wallets.user_id is unique: a committed row with the key refuses the INSERT
WalletUserIdTaken(user_id) == RowsOfUser(credit_wallets, user_id) # <<>>

\* the ORM's UPDATE sets the columns whose value differs from the loaded one,
\* on the row as it stands once the lock is held; refresh() then reloads the row
FlushRow(base, loaded, modified) ==
    [f \in DOMAIN base |-> IF modified[f] # loaded[f] THEN modified[f] ELSE base[f]]

\* variant: the lookup never matches a row
TransactionsOf_no_match(external_id) == <<>>

\* the rows SELECT payment_transactions WHERE external_id = :external_id returns
TransactionsOf(external_id) ==
    SelectSeq(payment_transactions, LAMBDA r : r.external_id = external_id)

\* variant: the column carries no unique constraint
ExternalIdTaken_unconstrained(external_id) == FALSE

\* payment_transactions.external_id is unique: a committed row with the key
\* refuses the INSERT
ExternalIdTaken(external_id) ==
    \E i \in 1..Len(payment_transactions) :
        payment_transactions[i].external_id = external_id

\* another session has an uncommitted INSERT with the same external_id
ExternalIdInsertPending(s, external_id) ==
    \E t \in Sessions \ {s} :
        sess[t].p_txn # <<>> /\ sess[t].p_txn[1].external_id = external_id

\* variant: the newest subscription row of anybody (no WHERE user_id = :user_id)
LatestSubscriptionIdx_any_user(user_id) == Len(subscriptions)

\* index of the user's newest subscription row (ORDER BY created_at DESC LIMIT 1), 0 if none
LatestSubscriptionIdx(user_id) ==
    LET idx == {i \in 1..Len(subscriptions) : subscriptions[i].user_id = user_id}
    IN IF idx = {} THEN 0 ELSE CHOOSE i \in idx : \A j \in idx : j <= i

SubscriptionLockedByOther(s, idx) ==
    \E t \in Sessions \ {s} : sess[t].s_mode = "update" /\ sess[t].sub_idx = idx

----------------------------------------------------------------------------
(* Repository statements, one step each, with the service code that runs   *)
(* between two statements folded into the step that follows it             *)

\* BillingService.get_wallet has its row: what the calling method does next
AfterGetWallet(sr, row) ==
    IF sr.svc = "get_wallet"
    THEN [sr EXCEPT !.wallet = <<row>>, !.ret = <<row>>, !.pc = "commit"]
    ELSE IF sr.svc = "precheck"
    THEN LET cost == calculate_cost_credits(settings, sr.total_tokens, sr.model_name)
             available == row.monthly_remaining + row.prepaid_balance
         IN IF precheck_rejects(row, cost)
            THEN Rollback(sr, "PaymentRequiredError", <<cost, available>>)
            ELSE [sr EXCEPT !.wallet = <<row>>, !.ret = <<cost>>, !.pc = "commit"]
    ELSE [sr EXCEPT !.wallet = <<row>>, !.pc = "update_wallet"]

\* SELECT credit_wallets WHERE user_id = :user_id; scalar_one_or_none()
get_wallet_by_user_id(s) ==
    /\ sess[s].pc = "get_wallet_by_user_id"
    /\ LET sr == sess[s]
           rows == VisibleWallets(s, sr.user_id)
       IN sess' = [sess EXCEPT ![s] =
                IF Len(rows) = 0 THEN [sr EXCEPT !.pc = "create_wallet"]
                ELSE IF Len(rows) > 1 THEN Rollback(sr, "MultipleResultsFound", <<>>)
                ELSE AfterGetWallet(sr, rows[1])]
    /\ UNCHANGED <<settings, tables, calls>>

\* INSERT credit_wallets (user_id, 0, 0); flush; refresh
create_wallet(s) ==
    /\ sess[s].pc = "create_wallet"
    /\ ~WalletInsertPending(s, sess[s].user_id)
    /\ LET sr == sess[s] IN
       sess' = [sess EXCEPT ![s] =
                IF WalletUserIdTaken(sr.user_id)
                THEN Rollback(sr, "IntegrityError(credit_wallets.user_id)", <<>>)
                ELSE AfterGetWallet([sr EXCEPT !.w_mode = "insert"],
                                    WalletRow(sr.user_id, 0, 0))]
    /\ UNCHANGED <<settings, tables, calls>>

\* the caller's assignment to the wallet object, then
\* UPDATE credit_wallets SET <changed columns>; flush; refresh
update_wallet(s) ==
    /\ sess[s].pc = "update_wallet"
    /\ \E cost \in {calculate_cost_credits(settings, sess[s].total_tokens,
                                           sess[s].model_name)} :
       LET sr == sess[s]
           loaded == sr.wallet[1]
           d == commit_usage_deduct(loaded, cost)
           modified == IF sr.svc = "commit_usage" THEN d.wallet
                       ELSE IF sr.svc = "grant_monthly_allowance"
                       THEN grant_monthly_allowance_set(settings, loaded)
                       ELSE apply_pack_purchase_add(loaded, sr.credits)
           changed == modified # loaded
           base == IF sr.w_mode # "none" THEN loaded
                   ELSE RowsOfUser(credit_wallets, sr.user_id)[1]
           next == IF sr.svc = "commit_usage" THEN "create_ledger_entry"
                   ELSE IF sr.svc = "grant_monthly_allowance"
                   THEN "get_latest_subscription"
                   ELSE "create_transaction"
           usage == IF sr.svc = "commit_usage"
                    THEN [sr EXCEPT !.cost = cost,
                                    !.monthly_deducted = d.monthly_deducted,
                                    !.prepaid_deducted = d.prepaid_deducted,
                                    !.overage = d.overage]
                    ELSE sr
       IN /\ changed => ~WalletLockedByOther(s, sr.user_id)
          /\ sess' = [sess EXCEPT ![s] =
                [usage EXCEPT
                    !.wallet = <<FlushRow(base, loaded, modified)>>,
                    !.w_mode = IF changed /\ @ = "none" THEN "update" ELSE @,
                    !.pc = next]]
    /\ UNCHANGED <<settings, tables, calls>>

\* variant: the ledger row is added twice
create_ledger_entry_twice(s) ==
    /\ sess[s].pc = "create_ledger_entry"
    /\ LET sr == sess[s]
           row == [ user_id |-> sr.user_id,
                    model_name |-> sr.model_name,
                    total_tokens |-> sr.total_tokens,
                    cost_credits |-> sr.cost,
                    overage_credits |-> sr.overage ]
       IN sess' = [sess EXCEPT ![s] = [sr EXCEPT !.p_ledger = <<row, row>>,
                                                 !.pc = "commit"]]
    /\ UNCHANGED <<settings, tables, calls>>

\* variant: the ledger row is never added to the session
create_ledger_entry_dropped(s) ==
    /\ sess[s].pc = "create_ledger_entry"
    /\ sess' = [sess EXCEPT ![s].pc = "commit"]
    /\ UNCHANGED <<settings, tables, calls>>

\* INSERT token_ledgers; flush; refresh
create_ledger_entry(s) ==
    /\ sess[s].pc = "create_ledger_entry"
    /\ LET sr == sess[s] IN
       sess' = [sess EXCEPT ![s] =
                [sr EXCEPT !.p_ledger = << [ user_id |-> sr.user_id,
                                             model_name |-> sr.model_name,
                                             total_tokens |-> sr.total_tokens,
                                             cost_credits |-> sr.cost,
                                             overage_credits |-> sr.overage ] >>,
                           !.pc = "commit"]]
    /\ UNCHANGED <<settings, tables, calls>>

\* variant: the caller goes on whatever the lookup found
get_transaction_by_external_id_unchecked(s) ==
    /\ sess[s].pc = "get_transaction_by_external_id"
    /\ sess' = [sess EXCEPT ![s].pc =
                IF sess[s].svc = "apply_pack_purchase" THEN "get_wallet_by_user_id"
                ELSE "create_transaction"]
    /\ UNCHANGED <<settings, tables, calls>>

\* SELECT payment_transactions WHERE external_id = :external_id; then the
\* `if existing: return` of apply_pack_purchase / record_subscription_payment
get_transaction_by_external_id(s) ==
    /\ sess[s].pc = "get_transaction_by_external_id"
    /\ LET sr == sess[s]
           rows == TransactionsOf(sr.external_id)
       IN sess' = [sess EXCEPT ![s] =
                IF Len(rows) > 1 THEN Rollback(sr, "MultipleResultsFound", <<>>)
                ELSE IF Len(rows) = 1 THEN [sr EXCEPT !.pc = "commit"]
                ELSE IF sr.svc = "apply_pack_purchase"
                THEN [sr EXCEPT !.pc = "get_wallet_by_user_id"]
                ELSE [sr EXCEPT !.pc = "create_transaction"]]
    /\ UNCHANGED <<settings, tables, calls>>

\* amount is Numeric(10, 2): PostgreSQL rejects a value of 10^8 or more
NumericOverflow(amount) == amount # <<>> /\ amount[1] >= NumericLimit

\* INSERT payment_transactions; flush; refresh
create_transaction(s) ==
    /\ sess[s].pc = "create_transaction"
    /\ ~ExternalIdInsertPending(s, sess[s].external_id)
    /\ LET sr == sess[s]
           pack == sr.svc = "apply_pack_purchase"
           row == [ user_id |-> sr.user_id,
                    provider |-> "creem",
                    external_id |-> sr.external_id,
                    kind |-> IF pack THEN "credit_pack" ELSE "subscription",
                    status |-> "completed",
                    amount |-> sr.amount,
                    credits_granted |-> IF pack THEN sr.credits
                                        ELSE settings.BILLING_MONTHLY_CREDITS ]
       IN sess' = [sess EXCEPT ![s] =
                IF ExternalIdTaken(sr.external_id)
                THEN Rollback(sr, "IntegrityError(payment_transactions.external_id)", <<>>)
                ELSE IF NumericOverflow(sr.amount)
                THEN Rollback(sr, "DBAPIError(numeric field overflow)", <<>>)
                ELSE [sr EXCEPT !.p_txn = <<row>>, !.pc = "commit"]]
    /\ UNCHANGED <<settings, tables, calls>>

\* SELECT subscriptions WHERE user_id = :user_id ORDER BY created_at DESC LIMIT 1
get_latest_subscription(s) ==
    /\ sess[s].pc = "get_latest_subscription"
    /\ LET sr == sess[s]
           idx == LatestSubscriptionIdx(sr.user_id)
       IN sess' = [sess EXCEPT ![s] =
                [sr EXCEPT !.sub_idx = idx,
                           !.subscription = IF idx = 0 THEN <<>>
                                            ELSE <<subscriptions[idx]>>,
                           !.pc = "upsert_subscription"]]
    /\ UNCHANGED <<settings, tables, calls>>

\* upsert_subscription after its SELECT: overwrite the row found, else INSERT
upsert_subscription(s) ==
    /\ sess[s].pc = "upsert_subscription"
    /\ LET sr == sess[s]
           fields == [ user_id |-> sr.user_id,
                       provider |-> "creem",
                       provider_subscription_id |-> sr.provider_subscription_id,
                       status |-> "active",
                       plan_name |-> sr.plan_name,
                       monthly_credits |-> settings.BILLING_MONTHLY_CREDITS ]
           found == sr.sub_idx # 0
           changed == found /\ fields # sr.subscription[1]
           after == IF sr.call = "creem_webhook"
                    THEN [sr EXCEPT !.svc = "record_subscription_payment",
                                    !.pc = "get_transaction_by_external_id"]
                    ELSE [sr EXCEPT !.pc = "commit"]
       IN /\ changed => ~SubscriptionLockedByOther(s, sr.sub_idx)
          /\ sess' = [sess EXCEPT ![s] =
                IF ~found
                THEN [after EXCEPT !.subscription = <<fields>>, !.s_mode = "insert"]
                ELSE [after EXCEPT
                        !.subscription = <<FlushRow(subscriptions[sr.sub_idx],
                                                    sr.subscription[1], fields)>>,
                        !.s_mode = IF changed THEN "update" ELSE "none"]]
    /\ UNCHANGED <<settings, tables, calls>>

\* the session block ends normally: COMMIT makes the pending writes visible
db_commit(s) ==
    /\ sess[s].pc = "commit"
    /\ LET sr == sess[s] IN
       /\ credit_wallets' =
            IF sr.w_mode = "insert" THEN Append(credit_wallets, sr.wallet[1])
            ELSE IF sr.w_mode = "update"
            THEN [i \in DOMAIN credit_wallets |->
                    IF credit_wallets[i].user_id = sr.user_id
                    THEN sr.wallet[1] ELSE credit_wallets[i]]
            ELSE credit_wallets
       /\ subscriptions' =
            IF sr.s_mode = "insert" THEN Append(subscriptions, sr.subscription[1])
            ELSE IF sr.s_mode = "update"
            THEN [subscriptions EXCEPT ![sr.sub_idx] = sr.subscription[1]]
            ELSE subscriptions
       /\ token_ledgers' = token_ledgers \o sr.p_ledger
       /\ payment_transactions' = payment_transactions \o sr.p_txn
       /\ sess' = [sess EXCEPT ![s] = Finished(sr, "ok", "", sr.ret)]
    /\ UNCHANGED <<settings, calls>>

----------------------------------------------------------------------------
(* Creem provider adapter and webhook payloads *)

\* hmac.new(secret, payload, sha256).hexdigest(): distinct (secret, payload)
\* pairs give distinct digests
hmac_sha256(secret, payload) == <<"hmac-sha256", secret, payload>>

\* variant: an unset secret is a key like any other
verify_signature_unset_secret_ok(payload, signature, secret) ==
    hmac_sha256(secret, payload) = signature

verify_signature(payload, signature, secret) ==
    IF secret = "" THEN FALSE
    ELSE hmac_sha256(secret, payload) = signature

\* the request bodies the provider (or anybody else) posts
Payloads ==
    {"sub_u1", "pack_u1", "pack_u2", "other_type", "no_user", "bad_user",
     "unknown_pack", "not_json"}

\* two more bodies: a subscription recognisable by its billing type only, and
\* one recognisable by its product id only
ClassificationPayloads == {"sub_by_type", "sub_by_product"}

CheckoutCompleted(id, metadata, subscription, product, order) ==
    [ id |-> id, eventType |-> "checkout.completed",
      object |-> [ metadata |-> metadata, subscription |-> subscription,
                   product |-> product, order |-> order ] ]

\* json.loads(payload.decode("utf-8")): <<>> when the body is not JSON, else the event.
\* An absent "subscription" object is <<>>, an absent amount is <<>>.
parse_event(payload) ==
    LET pack == [id |-> "prod_pack_2000", billing_type |-> "onetime", name |-> "Pack 2000"]
        plan == [id |-> "prod_sub", billing_type |-> "recurring", name |-> "Pro"]
        paid990 == [type |-> "onetime", amount |-> <<990>>, currency |-> "USD"]
    IN
    IF payload = "not_json" THEN <<>>
    ELSE IF payload = "sub_u1" THEN
        << CheckoutCompleted("evt_sub", Dict1("user_id", "u1"),
             << [id |-> "sub_1", metadata |-> EmptyDict] >>, plan,
             [type |-> "recurring", amount |-> <<1900>>, currency |-> "USD"]) >>
    ELSE IF payload = "pack_u1" THEN
        << CheckoutCompleted("evt_pack", Dict1("user_id", "u1"), <<>>, pack, paid990) >>
    ELSE IF payload = "pack_u2" THEN
        << CheckoutCompleted("evt_pack_2", Dict1("user_id", "u1"),
             << [id |-> None, metadata |-> Dict1("user_id", "u2")] >>,
             pack, paid990) >>
    ELSE IF payload = "other_type" THEN
        << [ CheckoutCompleted("evt_other", Dict1("user_id", "u1"), <<>>, pack, paid990)
               EXCEPT !.eventType = "subscription.paid" ] >>
    ELSE IF payload = "no_user" THEN
        << CheckoutCompleted("evt_no_user", EmptyDict, <<>>, pack, paid990) >>
    ELSE IF payload = "sub_by_type" THEN
        << CheckoutCompleted("evt_sub_by_type", Dict1("internal_customer_id", "u1"), <<>>,
             [id |-> "prod_legacy_plan", billing_type |-> None, name |-> "Legacy"],
             [type |-> "recurring", amount |-> <<1900>>, currency |-> "USD"]) >>
    ELSE IF payload = "sub_by_product" THEN
        << CheckoutCompleted("evt_sub_by_product", Dict1("user_id", "u1"), <<>>,
             [id |-> "prod_sub", billing_type |-> "onetime", name |-> "Pro"],
             paid990) >>
    ELSE IF payload = "bad_user" THEN
        << CheckoutCompleted("evt_bad_user", Dict1("internal_customer_id", "not-a-uuid"),
             <<>>, pack, paid990) >>
    ELSE
        << CheckoutCompleted("evt_unknown_pack", Dict1("user_id", "u1"), <<>>,
             [id |-> "prod_gone", billing_type |-> None, name |-> "Old pack"],
             paid990) >>

\* the signature headers tried with a payload: the right one, one made with
\* another secret, one made with the empty secret, and no header at all
Signatures(payload) ==
    { hmac_sha256("whsec", payload), hmac_sha256("guess", payload),
      hmac_sha256("", payload), <<>> }

\* UUID(user_id_raw) succeeds
IsUUID(x) == x \in Users

\* variant: the provider's minor units are stored as they come
MajorUnits_undivided(amount_raw) ==
    IF amount_raw = <<>> THEN <<>>
    ELSE << amount_raw[1], 0 >>

\* float(amount_raw) / 100 when the amount is a number: <<units, hundredths>>
MajorUnits(amount_raw) ==
    IF amount_raw = <<>> THEN <<>>
    ELSE << amount_raw[1] \div 100, amount_raw[1] % 100 >>

\* variant: a product id that matches no pack gets the first pack's credits
resolve_pack_credits_first_pack(cfg, product_id) ==
    LET packs == cfg.BILLING_CREDIT_PACKS
        hits == {i \in 1..Len(packs) : packs[i].provider_product_id = product_id}
    IN IF Falsy(product_id) THEN 0
       ELSE IF hits = {} THEN packs[1].credits
       ELSE packs[CHOOSE i \in hits : \A j \in hits : i <= j].credits

\* variant: a matching product id gets the credits of the last configured pack
resolve_pack_credits_last_pack(cfg, product_id) ==
    LET packs == cfg.BILLING_CREDIT_PACKS
        hits == {i \in 1..Len(packs) : packs[i].provider_product_id = product_id}
    IN IF Falsy(product_id) \/ hits = {} THEN 0
       ELSE packs[Len(packs)].credits

\* _resolve_pack_credits: the credits of the first pack with that product id,
\* 0 (falsy, like None) when there is none
resolve_pack_credits(cfg, product_id) ==
    LET packs == cfg.BILLING_CREDIT_PACKS
        hits == {i \in 1..Len(packs) : packs[i].provider_product_id = product_id}
    IN IF Falsy(product_id) \/ hits = {} THEN 0
       ELSE packs[CHOOSE i \in hits : \A j \in hits : i <= j].credits

\* creem_webhook up to the point where it opens its database session: the
\* finished response, or the session record with which the dispatch starts
creem_webhook_dispatch(cfg, payload, signature) ==
    LET hook == [Idle EXCEPT !.call = "creem_webhook"]
        parsed == parse_event(payload)
        event == parsed[1]
        data == event.object
        subscription_meta == IF data.subscription # <<>>
                             THEN data.subscription[1].metadata ELSE EmptyDict
        metadata == IF subscription_meta # EmptyDict
                    THEN Update(data.metadata, subscription_meta) ELSE data.metadata
        user_id_raw == Or(Get(metadata, "user_id"), Get(metadata, "internal_customer_id"))
        product_id == data.product.id
        billing_type == Or(data.product.billing_type, data.order.type)
        amount == MajorUnits(data.order.amount)
        credits == resolve_pack_credits(cfg, product_id)
        args == [hook EXCEPT !.user_id = user_id_raw, !.external_id = event.id,
                             !.amount = amount]
    IN
    IF ~verify_signature(payload, signature, cfg.CREEM_WEBHOOK_SECRET)
    THEN Finished(hook, "HTTP400", "Invalid signature", <<>>)
    ELSE IF parsed = <<>>
    THEN Finished(hook, "JSONDecodeError", "", <<>>)
    ELSE IF event.eventType # "checkout.completed"
    THEN Finished(hook, "ignored", "", <<>>)
    ELSE IF Falsy(user_id_raw)
    THEN Finished(hook, "ignored", "missing_user_id", <<>>)
    ELSE IF ~IsUUID(user_id_raw)
    THEN Finished(hook, "ignored", "invalid_user_id", <<>>)
    ELSE IF billing_type = "recurring" \/ product_id = cfg.CREEM_SUBSCRIPTION_PRODUCT_ID
    THEN [args EXCEPT !.svc = "grant_monthly_allowance",
                      !.provider_subscription_id =
                          IF data.subscription # <<>> THEN data.subscription[1].id
                          ELSE None,
                      !.plan_name = data.product.name,
                      !.pc = "get_wallet_by_user_id"]
    ELSE IF credits = 0
    THEN Finished(args, "ignored", "unknown_pack", <<>>)
    ELSE [args EXCEPT !.svc = "apply_pack_purchase", !.credits = credits,
                      !.pc = "get_transaction_by_external_id"]

----------------------------------------------------------------------------
(* Checkout: BillingService.create_checkout and the provider adapter *)

\* the request kinds and pack_credits values a client posts; <<>> is None
CheckoutKinds == {"subscription", "credit_pack", "gift"}

PackCreditsChoices == {<<>>, <<2000>>, <<5000>>, <<123>>}

\* what the provider answers to POST /v1/checkouts
ProviderReplies == {"checkout_url", "status_400", "no_checkout_url", "timeout"}

\* index of the first configured pack with these credits, 0 if none
\* (next(item for item in BILLING_CREDIT_PACKS if credits match, None))
PackWithCredits(cfg, pack_credits) ==
    LET packs == cfg.BILLING_CREDIT_PACKS
        hits == {i \in 1..Len(packs) : packs[i].credits = pack_credits}
    IN IF hits = {} THEN 0 ELSE CHOOSE i \in hits : \A j \in hits : i <= j

\* variant: a pack without a provider product id passes the validation
create_checkout_validate_no_product_check(cfg, kind, pack_credits) ==
    IF cfg.BILLING_PROVIDER # "creem"
    THEN [error |-> "Billing provider not configured yet", product_id |-> ""]
    ELSE IF kind = "subscription"
    THEN IF Falsy(cfg.CREEM_SUBSCRIPTION_PRODUCT_ID)
         THEN [error |-> "CREEM_SUBSCRIPTION_PRODUCT_ID is not set", product_id |-> ""]
         ELSE [error |-> "", product_id |-> cfg.CREEM_SUBSCRIPTION_PRODUCT_ID]
    ELSE IF kind = "credit_pack"
    THEN IF pack_credits = <<>>
         THEN [error |-> "pack_credits is required for credit_pack checkout",
               product_id |-> ""]
         ELSE IF PackWithCredits(cfg, pack_credits[1]) = 0
         THEN [error |-> "Unknown credit pack selected", product_id |-> ""]
         ELSE [error |-> "",
               product_id |-> Or(cfg.BILLING_CREDIT_PACKS[
                                    PackWithCredits(cfg, pack_credits[1])
                                 ].provider_product_id, "")]
    ELSE [error |-> "Invalid checkout type", product_id |-> ""]

\* create_checkout up to the adapter call: the BadRequestError message, or ""
\* and the product id to check out
create_checkout_validate(cfg, kind, pack_credits) ==
    IF cfg.BILLING_PROVIDER # "creem"
    THEN [error |-> "Billing provider not configured yet", product_id |-> ""]
    ELSE IF kind = "subscription"
    THEN IF Falsy(cfg.CREEM_SUBSCRIPTION_PRODUCT_ID)
         THEN [error |-> "CREEM_SUBSCRIPTION_PRODUCT_ID is not set", product_id |-> ""]
         ELSE [error |-> "", product_id |-> cfg.CREEM_SUBSCRIPTION_PRODUCT_ID]
    ELSE IF kind = "credit_pack"
    THEN IF pack_credits = <<>>
         THEN [error |-> "pack_credits is required for credit_pack checkout",
               product_id |-> ""]
         ELSE IF PackWithCredits(cfg, pack_credits[1]) = 0
         THEN [error |-> "Unknown credit pack selected", product_id |-> ""]
         ELSE LET product_id ==
                    Or(cfg.BILLING_CREDIT_PACKS[
                          PackWithCredits(cfg, pack_credits[1])].provider_product_id, "")
              IN IF Falsy(product_id)
                 THEN [error |-> "Credit pack product_id is not configured",
                       product_id |-> ""]
                 ELSE [error |-> "", product_id |-> product_id]
    ELSE [error |-> "Invalid checkout type", product_id |-> ""]

\* creem.create_checkout_session, then `return response["checkout_url"]`:
\* sr.checkout records the adapter's invocations and what the provider did;
\* without an API key the adapter raises at once, else the provider's reply
\* decides.  No reply within the client's timeout=15 makes client.post raise
\* httpx.TimeoutException, which nothing in the adapter catches.
create_checkout_session(s) ==
    /\ sess[s].pc = "create_checkout_session"
    /\ LET sr == sess[s]
           product_id == create_checkout_validate(settings, sr.kind,
                                                  sr.pack_credits).product_id
           request == [ product_id |-> product_id,
                        customer_email |-> "user@example.com",
                        metadata |-> Dict1("user_id", sr.user_id),
                        reply |-> None ]
           unsent == [sr EXCEPT !.checkout = Append(@, request)]
       IN \E reply \in ProviderReplies :
            LET sent == [sr EXCEPT
                            !.checkout = Append(@, [request EXCEPT !.reply = reply])]
            IN
            sess' = [sess EXCEPT ![s] =
                IF Falsy(settings.CREEM_API_KEY)
                THEN Rollback(unsent, "ExternalServiceError", <<>>)
                ELSE IF reply = "timeout"
                THEN Rollback(sent, "httpx.TimeoutException", <<>>)
                ELSE IF reply = "status_400"
                THEN Rollback(sent, "ExternalServiceError", <<400>>)
                ELSE IF reply = "no_checkout_url"
                THEN Rollback(sent, "KeyError", <<>>)
                ELSE [sent EXCEPT !.ret = <<"https://checkout/" \o product_id>>,
                                  !.pc = "commit"]]
    /\ UNCHANGED <<settings, tables, calls>>

----------------------------------------------------------------------------
(* Calls: a request enters on an idle session *)

\* the external ids callers of the service pass
ExternalIds == {"ext_1", "ext_2"}

PackCreditChoices == {2000}

LedgerRowsUnderWay ==
    Len(token_ledgers)
    + Cardinality({t \in Sessions : Running(t) /\ sess[t].svc = "commit_usage"})

\* the session pool hands a request the first session that runs no call
Call(s, sr) ==
    /\ calls < MaxCalls
    /\ ~Running(s)
    /\ \A t \in Sessions : SessionOrder(t) < SessionOrder(s) => Running(t)
    /\ sess' = [sess EXCEPT ![s] = sr]
    /\ calls' = calls + 1
    /\ UNCHANGED <<settings, tables>>

get_wallet(s, user_id) ==
    Call(s, [Idle EXCEPT !.call = "get_wallet", !.svc = "get_wallet",
                         !.user_id = user_id, !.pc = "get_wallet_by_user_id"])

precheck(s, user_id, model_name, estimated_tokens) ==
    Call(s, [Idle EXCEPT !.call = "precheck", !.svc = "precheck",
                         !.user_id = user_id, !.model_name = model_name,
                         !.total_tokens = estimated_tokens,
                         !.pc = "get_wallet_by_user_id"])

commit_usage(s, user_id, model_name, total_tokens) ==
    /\ LedgerRowsUnderWay < MaxLedger
    /\ Call(s, [Idle EXCEPT !.call = "commit_usage", !.svc = "commit_usage",
                            !.user_id = user_id, !.model_name = model_name,
                            !.total_tokens = total_tokens,
                            !.pc = "get_wallet_by_user_id"])

grant_monthly_allowance(s, user_id, provider_subscription_id, plan_name) ==
    Call(s, [Idle EXCEPT !.call = "grant_monthly_allowance",
                         !.svc = "grant_monthly_allowance",
                         !.user_id = user_id,
                         !.provider_subscription_id = provider_subscription_id,
                         !.plan_name = plan_name,
                         !.pc = "get_wallet_by_user_id"])

apply_pack_purchase(s, user_id, external_id, credits, amount) ==
    Call(s, [Idle EXCEPT !.call = "apply_pack_purchase",
                         !.svc = "apply_pack_purchase",
                         !.user_id = user_id, !.external_id = external_id,
                         !.credits = credits, !.amount = amount,
                         !.pc = "get_transaction_by_external_id"])

record_subscription_payment(s, user_id, external_id, amount) ==
    Call(s, [Idle EXCEPT !.call = "record_subscription_payment",
                         !.svc = "record_subscription_payment",
                         !.user_id = user_id, !.external_id = external_id,
                         !.amount = amount,
                         !.pc = "get_transaction_by_external_id"])

creem_webhook(s, payload, signature) ==
    Call(s, creem_webhook_dispatch(settings, payload, signature))

create_checkout(s, user_id, kind, pack_credits) ==
    LET sr == [Idle EXCEPT !.call = "create_checkout", !.svc = "create_checkout",
                           !.user_id = user_id, !.kind = kind,
                           !.pack_credits = pack_credits]
        checked == create_checkout_validate(settings, kind, pack_credits)
    IN Call(s, IF checked.error # ""
               THEN Rollback(sr, "BadRequestError", <<checked.error>>)
               ELSE [sr EXCEPT !.pc = "create_checkout_session"])

----------------------------------------------------------------------------
(* Specifications *)

\* the configurations the application is started with
Deployments == {DeployedSettings, DefaultSettings}

Init ==
    /\ settings = DeployedSettings
    /\ credit_wallets = <<>>
    /\ subscriptions = <<>>
    /\ token_ledgers = <<>>
    /\ payment_transactions = <<>>
    /\ sess = [s \in Sessions |-> Idle]
    /\ calls = 0

\* the requests of a workload: its users, token counts and webhook payloads
Request(s, users, tokens, payloads) ==
    \/ \E u \in users : get_wallet(s, u)
    \/ \E u \in users, m \in ModelChoices, n \in tokens : precheck(s, u, m, n)
    \/ \E u \in users, m \in ModelChoices, n \in tokens : commit_usage(s, u, m, n)
    \/ \E u \in users : grant_monthly_allowance(s, u, "sub_1", "Pro")
    \/ \E u \in users, e \in ExternalIds, c \in PackCreditChoices :
            apply_pack_purchase(s, u, e, c, <<9, 90>>)
    \/ \E u \in users, e \in ExternalIds : record_subscription_payment(s, u, e, <<19, 0>>)
    \/ \E p \in payloads : \E g \in Signatures(p) : creem_webhook(s, p, g)

Step(s) ==
    \/ get_wallet_by_user_id(s)
    \/ create_wallet(s)
    \/ update_wallet(s)
    \/ create_ledger_entry(s)
    \/ get_transaction_by_external_id(s)
    \/ create_transaction(s)
    \/ get_latest_subscription(s)
    \/ upsert_subscription(s)
    \/ db_commit(s)

\* requests for one user are served concurrently, each in its own session
Next ==
    \E s \in Sessions :
        Request(s, {"u1"}, {2500, 60000}, Payloads \ {"pack_u2"}) \/ Step(s)

Spec == Init /\ [][Next]_vars

\* requests are served one after the other
Quiet == \A t \in Sessions : ~Running(t)

NextSeq ==
    \E s \in Sessions :
        (Quiet /\ Request(s, Users, TokenChoices, Payloads)) \/ Step(s)

SeqSpec == Init /\ [][NextSeq]_vars

----------------------------------------------------------------------------
(* The whole API of one user, webhook and checkout included, served one    *)
(* request after the other under each configuration                        *)

ConfigInit ==
    /\ settings \in Deployments
    /\ credit_wallets = <<>>
    /\ subscriptions = <<>>
    /\ token_ledgers = <<>>
    /\ payment_transactions = <<>>
    /\ sess = [s \in Sessions |-> Idle]
    /\ calls = 0

CheckoutRequest(s) ==
    \E k \in CheckoutKinds, c \in PackCreditsChoices : create_checkout(s, "u1", k, c)

ConfigStep(s) == Step(s) \/ create_checkout_session(s)

ConfigNext ==
    \E s \in Sessions :
        \/ Quiet /\ Request(s, {"u1"}, {0, 2500, 60000},
                             Payloads \cup ClassificationPayloads)
        \/ Quiet /\ CheckoutRequest(s)
        \/ ConfigStep(s)

ConfigSpec == ConfigInit /\ [][ConfigNext]_vars

----------------------------------------------------------------------------
(* The cost model on its own: the module-level functions of                *)
(* services/billing.py under the values a deployment can give the billing  *)
(* settings                                                                *)

\* BILLING_TOKENS_PER_CREDIT: int, unvalidated (0 is raised to 1 by the code)
TokensPerCreditChoices == {0, 1, 7, 1000}

\* BILLING_CHARS_PER_TOKEN: int, unvalidated
CharsPerTokenChoices == {0, 3, 4}

\* BILLING_MODEL_MULTIPLIERS: dict[str, float], unvalidated: the default, no
\* entry at all, a dearer model, a dearer default, a free default
MultiplierMaps ==
    { [default |-> 1000],
      [k \in {} |-> 0],
      [k \in {"default", "gpt-4o-mini"} |-> IF k = "default" THEN 1500 ELSE 30000],
      [default |-> 7000],
      [default |-> 0] }

CostSettings ==
    { [DeployedSettings EXCEPT !.BILLING_TOKENS_PER_CREDIT = t,
                               !.BILLING_CHARS_PER_TOKEN = c,
                               !.BILLING_MODEL_MULTIPLIERS = m] :
        t \in TokensPerCreditChoices, c \in CharsPerTokenChoices, m \in MultiplierMaps }

CostModelNames == {None, "", "gpt-4o-mini", "gpt-unlisted"}

CostTokenChoices == {-1, 0, 1, 29, 2500, 8300}

\* len(text), len(user_message)
TextLenChoices == {0, 1, 8, 9}

\* the content lengths of a history; a message without "content" counts 0
HistoryChoices == { <<>>, <<0>>, <<4>>, <<3, 5>> }

CostInit ==
    /\ settings \in CostSettings
    /\ credit_wallets = <<>>
    /\ subscriptions = <<>>
    /\ token_ledgers = <<>>
    /\ payment_transactions = <<>>
    /\ sess = [s \in Sessions |-> Idle]
    /\ calls = 0

call_calculate_cost_credits(s, total_tokens, model_name) ==
    Call(s, Finished([Idle EXCEPT !.call = "calculate_cost_credits",
                                  !.total_tokens = total_tokens,
                                  !.model_name = model_name],
                     "ok", "",
                     <<calculate_cost_credits(settings, total_tokens, model_name)>>))

call_estimate_tokens_from_text(s, text_len) ==
    Call(s, Finished([Idle EXCEPT !.call = "estimate_tokens_from_text",
                                  !.text_len = text_len],
                     "ok", "", <<estimate_tokens_from_text(settings, text_len)>>))

call_estimate_prompt_tokens(s, history_lens, message_len) ==
    Call(s, Finished([Idle EXCEPT !.call = "estimate_prompt_tokens",
                                  !.history_lens = history_lens,
                                  !.text_len = message_len],
                     "ok", "",
                     <<estimate_prompt_tokens(settings, history_lens, message_len)>>))

CostNext ==
    \E s \in Sessions :
        \/ \E n \in CostTokenChoices, m \in CostModelNames :
                call_calculate_cost_credits(s, n, m)
        \/ \E n \in TextLenChoices : call_estimate_tokens_from_text(s, n)
        \/ \E h \in HistoryChoices, n \in TextLenChoices :
                call_estimate_prompt_tokens(s, h, n)

CostSpec == CostInit /\ [][CostNext]_vars

----------------------------------------------------------------------------
(* Subscription grants of one user served concurrently: renewals and plan  *)
(* changes, each with its own provider subscription id and plan name       *)

GrantChoices ==
    { [provider_subscription_id |-> "sub_1", plan_name |-> "Pro"],
      [provider_subscription_id |-> "sub_1", plan_name |-> "Team"],
      [provider_subscription_id |-> "sub_2", plan_name |-> "Pro"] }

GrantRequest(s) ==
    \/ get_wallet(s, "u1")
    \/ \E g \in GrantChoices :
            grant_monthly_allowance(s, "u1", g.provider_subscription_id, g.plan_name)
    \/ \E m \in ModelChoices : commit_usage(s, "u1", m, 2500)

GrantStep(s) ==
    \/ get_wallet_by_user_id(s)
    \/ create_wallet(s)
    \/ update_wallet(s)
    \/ create_ledger_entry(s)
    \/ get_latest_subscription(s)
    \/ upsert_subscription(s)
    \/ db_commit(s)

GrantNext == \E s \in Sessions : GrantRequest(s) \/ GrantStep(s)

GrantSpec == Init /\ [][GrantNext]_vars

----------------------------------------------------------------------------
(* The two-phase use of the service by a chat turn: precheck with the      *)
(* estimated tokens before the model is called, commit_usage with the      *)
(* actual tokens once it has answered, each in a database session of its   *)
(* own, while other requests for the same user are served concurrently     *)

TurnTokenChoices == {2500, 60000}

\* the turn starts: precheck(user_id, model_name, estimated_tokens)
chat_turn(s, user_id, model_name, estimated_tokens) ==
    Call(s, [Idle EXCEPT !.call = "chat_turn", !.svc = "precheck",
                         !.user_id = user_id, !.model_name = model_name,
                         !.total_tokens = estimated_tokens,
                         !.pc = "get_wallet_by_user_id"])

\* precheck has returned and its session commits (a wallet it created becomes
\* visible); the model answers with no more tokens than estimated and the turn
\* goes on with commit_usage.  admitted keeps the wallet row precheck saw.
chat_turn_commit_usage(s) ==
    /\ sess[s].pc = "commit"
    /\ sess[s].call = "chat_turn" /\ sess[s].svc = "precheck"
    /\ LedgerRowsUnderWay < MaxLedger
    /\ LET sr == sess[s] IN
       /\ credit_wallets' = IF sr.w_mode = "insert"
                            THEN Append(credit_wallets, sr.wallet[1])
                            ELSE credit_wallets
       /\ \E total_tokens \in TurnTokenChoices :
            /\ total_tokens <= sr.total_tokens
            /\ sess' = [sess EXCEPT ![s] =
                    [Idle EXCEPT !.call = "chat_turn", !.svc = "commit_usage",
                                 !.user_id = sr.user_id,
                                 !.model_name = sr.model_name,
                                 !.total_tokens = total_tokens,
                                 !.admitted = sr.wallet,
                                 !.pc = "get_wallet_by_user_id"]]
    /\ UNCHANGED <<settings, subscriptions, token_ledgers, payment_transactions, calls>>

AdmissionRequest(s) ==
    \/ grant_monthly_allowance(s, "u1", "sub_1", "Pro")
    \/ \E m \in ModelChoices, n \in TurnTokenChoices : commit_usage(s, "u1", m, n)
    \/ \E m \in ModelChoices, n \in TurnTokenChoices : chat_turn(s, "u1", m, n)

AdmissionStep(s) ==
    \/ GrantStep(s)
    \/ chat_turn_commit_usage(s)

AdmissionNext == \E s \in Sessions : AdmissionRequest(s) \/ AdmissionStep(s)

AdmissionSpec == Init /\ [][AdmissionNext]_vars

----------------------------------------------------------------------------
(* Pack purchases and usage of two users served one after the other, some  *)
(* purchases with an amount the amount column cannot hold                  *)

PackAmountChoices == { <<9, 90>>, <<NumericLimit, 0>> }

PackTokenChoices == {2500, 2051000}

PackRequest(s) ==
    \/ \E u \in Users, e \in ExternalIds, c \in PackCreditChoices, a \in PackAmountChoices :
            apply_pack_purchase(s, u, e, c, a)
    \/ \E u \in Users, m \in ModelChoices, n \in PackTokenChoices :
            commit_usage(s, u, m, n)

PackStep(s) ==
    \/ get_wallet_by_user_id(s)
    \/ create_wallet(s)
    \/ update_wallet(s)
    \/ create_ledger_entry(s)
    \/ get_transaction_by_external_id(s)
    \/ create_transaction(s)
    \/ db_commit(s)

PackNext == \E s \in Sessions : (Quiet /\ PackRequest(s)) \/ PackStep(s)

PackSpec == Init /\ [][PackNext]_vars

----------------------------------------------------------------------------
(* Two calls racing on one wallet *)

RaceWallet == WalletRow("u1", 50, 2000)

\* the tables after the deliveries sub_u1 and pack_u1
RaceInit ==
    /\ settings = DeployedSettings
    /\ credit_wallets = << RaceWallet >>
    /\ subscriptions =
        << [ user_id |-> "u1", provider |-> "creem",
             provider_subscription_id |-> "sub_1", status |-> "active",
             plan_name |-> "Pro", monthly_credits |-> 50 ] >>
    /\ token_ledgers = <<>>
    /\ payment_transactions =
        << [ user_id |-> "u1", provider |-> "creem", external_id |-> "evt_sub",
             kind |-> "subscription", status |-> "completed",
             amount |-> <<19, 0>>, credits_granted |-> 50 ],
           [ user_id |-> "u1", provider |-> "creem", external_id |-> "evt_pack",
             kind |-> "credit_pack", status |-> "completed",
             amount |-> <<9, 90>>, credits_granted |-> 2000 ] >>
    /\ sess = [s \in Sessions |-> Idle]
    /\ calls = 0

\* each session serves one wallet-writing call for the same user
RaceRequest(s) ==
    /\ sess[s].pc = "idle"
    /\ \/ \E m \in ModelChoices, n \in TokenChoices : commit_usage(s, "u1", m, n)
       \/ \E e \in ExternalIds, c \in PackCreditChoices :
            apply_pack_purchase(s, "u1", e, c, <<9, 90>>)

RaceStep(s) ==
    \/ get_transaction_by_external_id(s)
    \/ get_wallet_by_user_id(s)
    \/ update_wallet(s)
    \/ create_ledger_entry(s)
    \/ create_transaction(s)
    \/ db_commit(s)

RaceNext == \E s \in Sessions : RaceRequest(s) \/ RaceStep(s)

RaceSpec == RaceInit /\ [][RaceNext]_vars

\* the state the race starts from is one the system reaches by itself
RaceInitReached ==
    /\ credit_wallets = << RaceWallet >>
    /\ Len(subscriptions) = 1 /\ subscriptions[1].provider_subscription_id = "sub_1"
    /\ token_ledgers = <<>>
    /\ Len(payment_transactions) = 2
    /\ payment_transactions[1].external_id = "evt_sub"
    /\ payment_transactions[2].external_id = "evt_pack"
    /\ Quiet

----------------------------------------------------------------------------
(* Properties *)

\* the balances of a user in a wallet table; a user without a row has none
BalanceIn(wallets, user_id) ==
    IF RowsOfUser(wallets, user_id) = <<>> THEN WalletRow(user_id, 0, 0)
    ELSE RowsOfUser(wallets, user_id)[1]

NonNegative(row) == row.monthly_remaining >= 0 /\ row.prepaid_balance >= 0

Last(q) == q[Len(q)]

\* session s commits in this step
Commits(s) == sess[s].pc = "commit" /\ sess'[s].pc = "done"

\* C1: in every reachable state, under any interleaving of the service's calls
\* and of webhook deliveries, every wallet row (committed, or held by a session
\* between two statements) has monthly_remaining >= 0 and prepaid_balance >= 0.
C1_BalancesNeverNegative ==
    /\ \A i \in DOMAIN credit_wallets : NonNegative(credit_wallets[i])
    /\ \A s \in Sessions : sess[s].wallet # <<>> => NonNegative(sess[s].wallet[1])

\* a usage that cost more than the wallet held has been committed: the wallet
\* stands at zero and the ledger row carries the overage
C1_Witness ==
    \E i \in DOMAIN token_ledgers :
        /\ token_ledgers[i].overage_credits > 0
        /\ token_ledgers[i].cost_credits > token_ledgers[i].overage_credits
        /\ BalanceIn(credit_wallets, token_ledgers[i].user_id)
             = WalletRow(token_ledgers[i].user_id, 0, 0)

\* C2 (as claimed): once two racing wallet writers for the same user are both
\* over, the wallet holds what running the two calls one after the other, in
\* one of the two orders, would have left.
SerialCall(st, sr) ==
    IF sr.call = "commit_usage"
    THEN [st EXCEPT !.wallet =
            commit_usage_deduct(@, calculate_cost_credits(settings, sr.total_tokens,
                                                          sr.model_name)).wallet]
    ELSE IF sr.external_id \in st.applied THEN st
    ELSE [ wallet |-> apply_pack_purchase_add(st.wallet, sr.credits),
           applied |-> st.applied \cup {sr.external_id} ]

C2_NoLostUpdate ==
    (\A s \in Sessions : sess[s].pc = "done") =>
        LET st0 == [wallet |-> RaceWallet, applied |-> {"evt_sub", "evt_pack"}]
            a == sess["s1"]
            b == sess["s2"]
        IN BalanceIn(credit_wallets, "u1") \in
             { SerialCall(SerialCall(st0, a), b).wallet,
               SerialCall(SerialCall(st0, b), a).wallet }

\* C3: with requests served one after the other, an apply_pack_purchase whose
\* external_id has no transaction yet adds its credits to the user's
\* prepaid_balance (monthly_remaining untouched) and records exactly one
\* credit_pack transaction; one whose external_id already has a transaction
\* leaves all four tables as they were; and neither ever ends with an error.
C3_ApplyPackIdempotent ==
    /\ [][\A s \in Sessions :
            (Commits(s) /\ sess[s].svc = "apply_pack_purchase") =>
                LET sr == sess[s]
                    before == BalanceIn(credit_wallets, sr.user_id)
                    after == BalanceIn(credit_wallets', sr.user_id)
                IN IF ExternalIdTaken(sr.external_id)
                   THEN tables' = tables
                   ELSE /\ after.prepaid_balance = before.prepaid_balance + sr.credits
                        /\ after.monthly_remaining = before.monthly_remaining
                        /\ Len(payment_transactions') = Len(payment_transactions) + 1
                        /\ Last(payment_transactions').external_id = sr.external_id
                        /\ Last(payment_transactions').kind = "credit_pack"
                        /\ Last(payment_transactions').credits_granted = sr.credits
          ]_vars
    /\ [](\A s \in Sessions :
            (sess[s].pc = "done" /\ sess[s].svc = "apply_pack_purchase")
                => sess[s].result = "ok")

\* a second apply_pack_purchase with an external_id already recorded for u1 has
\* returned: it was made for u2, who still has no wallet, and u1 got the credits once
C3_Witness ==
    \E s \in Sessions :
        /\ sess[s].pc = "done" /\ sess[s].call = "apply_pack_purchase"
        /\ sess[s].user_id = "u2" /\ sess[s].result = "ok"
        /\ Len(TransactionsOf(sess[s].external_id)) = 1
        /\ TransactionsOf(sess[s].external_id)[1].user_id = "u1"
        /\ RowsOfUser(credit_wallets, "u2") = <<>>
        /\ BalanceIn(credit_wallets, "u1").prepaid_balance = 2000

\* C4 (as claimed): with requests served one after the other, a delivery of a
\* checkout.completed event whose event id already has a payment transaction
\* leaves wallets, subscriptions and payment transactions as they were.
C4_RedeliveryIsNoOp ==
    [][\A s \in Sessions :
         (Commits(s) /\ sess[s].call = "creem_webhook"
            /\ ExternalIdTaken(sess[s].external_id)) =>
                /\ credit_wallets' = credit_wallets
                /\ subscriptions' = subscriptions
                /\ payment_transactions' = payment_transactions
      ]_vars

\* C5: in every reachable state, whatever the interleaving of concurrent calls
\* and deliveries, no two committed payment transactions carry the same
\* external_id.
C5_ExternalIdUnique ==
    \A i, j \in DOMAIN payment_transactions :
        payment_transactions[i].external_id = payment_transactions[j].external_id
            => i = j

\* the store itself refused a duplicate that had passed the service's check
C5_Witness ==
    \E s \in Sessions :
        /\ sess[s].pc = "done"
        /\ sess[s].result = "IntegrityError(payment_transactions.external_id)"
        /\ Len(TransactionsOf(sess[s].external_id)) = 1

\* C6 (as claimed): no delivery of a credit-pack event ends by raising the
\* external_id uniqueness violation; the delivery that loses the race answers
\* like an already-applied one.
C6_RacingDuplicateIsNoOp ==
    \A s \in Sessions :
        (sess[s].pc = "done" /\ sess[s].call = "creem_webhook"
            /\ sess[s].svc = "apply_pack_purchase")
        => sess[s].result # "IntegrityError(payment_transactions.external_id)"

\* C7 (as claimed): every get_wallet call that is over has returned the one
\* wallet row of its user.
C7_GetWalletRaceSafe ==
    \A s \in Sessions :
        (sess[s].pc = "done" /\ sess[s].call = "get_wallet") =>
            /\ sess[s].result = "ok"
            /\ Len(sess[s].ret) = 1 /\ sess[s].ret[1].user_id = sess[s].user_id
            /\ Len(RowsOfUser(credit_wallets, sess[s].user_id)) = 1

\* C8: with requests served one after the other, every commit_usage appends a
\* ledger row whose cost_credits equals what the call took from
\* monthly_remaining plus what it took from prepaid_balance plus the row's
\* overage_credits.
C8_Conservation ==
    [][\A s \in Sessions :
         (Commits(s) /\ sess[s].svc = "commit_usage") =>
            LET before == BalanceIn(credit_wallets, sess[s].user_id)
                after == BalanceIn(credit_wallets', sess[s].user_id)
                entry == Last(token_ledgers')
            IN /\ Len(token_ledgers') = Len(token_ledgers) + 1
               /\ entry.user_id = sess[s].user_id
               /\ entry.cost_credits =
                    (before.monthly_remaining - after.monthly_remaining)
                    + (before.prepaid_balance - after.prepaid_balance)
                    + entry.overage_credits
      ]_vars

\* a committed usage paid partly by the balances and partly as overage
C8_Witness ==
    \E i \in DOMAIN token_ledgers :
        /\ token_ledgers[i].overage_credits > 0
        /\ token_ledgers[i].cost_credits - token_ledgers[i].overage_credits > 50

\* C9: with requests served one after the other, a commit_usage of cost c on a
\* wallet {m, p} takes min(m, c) from monthly_remaining, min(p, c - min(m, c))
\* from prepaid_balance and logs the rest as overage, c being the cost of the
\* call's total_tokens; so prepaid_balance drops only if monthly_remaining ends
\* at 0, and overage_credits > 0 only if both end at 0.
C9_StrictOrder ==
    [][\A s \in Sessions :
         (Commits(s) /\ sess[s].svc = "commit_usage") =>
            LET before == BalanceIn(credit_wallets, sess[s].user_id)
                after == BalanceIn(credit_wallets', sess[s].user_id)
                entry == Last(token_ledgers')
                c == entry.cost_credits
                monthly_taken == before.monthly_remaining - after.monthly_remaining
                prepaid_taken == before.prepaid_balance - after.prepaid_balance
            IN /\ c = IF sess[s].total_tokens <= 0 THEN 0
                      ELSE Ceil(sess[s].total_tokens, settings.BILLING_TOKENS_PER_CREDIT)
               /\ monthly_taken = Min(before.monthly_remaining, c)
               /\ prepaid_taken = Min(before.prepaid_balance, c - monthly_taken)
               /\ entry.overage_credits = c - monthly_taken - prepaid_taken
               /\ prepaid_taken > 0 => after.monthly_remaining = 0
               /\ entry.overage_credits > 0 =>
                    after.monthly_remaining = 0 /\ after.prepaid_balance = 0
      ]_vars

\* a usage of 2051 credits met a wallet {50, 2000}: both balances are spent and
\* one credit is overage
C9_Witness ==
    \E i \in DOMAIN token_ledgers :
        /\ token_ledgers[i].cost_credits = 2051
        /\ token_ledgers[i].overage_credits = 1
        /\ BalanceIn(credit_wallets, token_ledgers[i].user_id)
             = WalletRow(token_ledgers[i].user_id, 0, 0)

\* C10: with requests served one after the other, a commit_usage never ends
\* with an error and is never stuck, whatever the wallet (absent, empty, too
\* small) and the token count; when it reaches the ledger insert the wallet
\* write it owed has been flushed, and its commit appends exactly one ledger row.
C10_CommitNeverFailsOnBalance ==
    /\ [](\A s \in Sessions : sess[s].svc = "commit_usage" =>
            /\ sess[s].pc = "done" => sess[s].result = "ok"
            /\ Running(s) => ENABLED Step(s)
            /\ sess[s].p_ledger # <<>> => sess[s].pc = "commit"
            /\ sess[s].pc \in {"create_ledger_entry", "commit"} =>
                 (sess[s].monthly_deducted + sess[s].prepaid_deducted > 0
                    => sess[s].w_mode # "none"))
    /\ [][\A s \in Sessions :
            (Commits(s) /\ sess[s].svc = "commit_usage") =>
                /\ Len(token_ledgers') = Len(token_ledgers) + 1
                /\ Last(token_ledgers').total_tokens = sess[s].total_tokens
         ]_vars

\* the first request ever is a commit_usage for a user without a wallet: it
\* has completed, the whole cost logged as overage
C10_Witness ==
    \E s \in Sessions :
        /\ calls = 1 /\ sess[s].pc = "done" /\ sess[s].call = "commit_usage"
        /\ sess[s].result = "ok"
        /\ Len(token_ledgers) = 1
        /\ token_ledgers[1].cost_credits > 0
        /\ token_ledgers[1].overage_credits = token_ledgers[1].cost_credits
        /\ BalanceIn(credit_wallets, sess[s].user_id) = WalletRow(sess[s].user_id, 0, 0)
        /\ Len(RowsOfUser(credit_wallets, sess[s].user_id)) = 1

\* C11: with requests served one after the other, a precheck that is over has
\* failed with PaymentRequiredError carrying <<required_credits, available_credits>>
\* = <<cost, monthly_remaining + prepaid_balance>> exactly when the user's
\* balances sum to less than the cost of the estimated tokens; otherwise
\* (equality included) it has returned the cost.
C11_PrecheckRejectsIffShort ==
    \A s \in Sessions :
        (sess[s].pc = "done" /\ sess[s].call = "precheck") =>
            LET w == BalanceIn(credit_wallets, sess[s].user_id)
                cost == calculate_cost_credits(settings, sess[s].total_tokens,
                                               sess[s].model_name)
                available == w.monthly_remaining + w.prepaid_balance
            IN IF available < cost
               THEN /\ sess[s].result = "PaymentRequiredError"
                    /\ sess[s].ret = <<cost, available>>
               ELSE /\ sess[s].result = "ok"
                    /\ sess[s].ret = <<cost>>

\* a precheck of 60 credits met a wallet holding 50 and was refused with both figures
C11_Witness ==
    \E s \in Sessions :
        /\ sess[s].pc = "done" /\ sess[s].call = "precheck"
        /\ sess[s].result = "PaymentRequiredError"
        /\ sess[s].ret = <<60, 50>>
        /\ BalanceIn(credit_wallets, sess[s].user_id).monthly_remaining = 50

\* C12 (as claimed): a precheck never holds a pending write, and the four
\* tables are the same after it as before it, on a user's first access too.
C12_PrecheckReadOnly ==
    [][\A s \in Sessions :
         sess'[s].svc = "precheck" =>
            /\ sess'[s].w_mode = "none"
            /\ Commits(s) => tables' = tables
      ]_vars

C14_PrepaidPersists ==
    [][\A u \in Users :
         LET before == BalanceIn(credit_wallets, u).prepaid_balance
             after == BalanceIn(credit_wallets', u).prepaid_balance
         IN /\ after > before =>
                 \E s \in Sessions :
                    /\ Commits(s) /\ sess[s].svc = "apply_pack_purchase"
                    /\ sess[s].user_id = u /\ after = before + sess[s].credits
            /\ after < before =>
                 \E s \in Sessions :
                    /\ Commits(s) /\ sess[s].svc = "commit_usage"
                    /\ sess[s].user_id = u
      ]_vars

\* a pack was bought, the allowance was granted, then a checkout was created:
\* the 2000 prepaid credits are still there
C14_Witness ==
    \E s \in Sessions :
        /\ calls = 3 /\ sess[s].pc = "done" /\ sess[s].call = "create_checkout"
        /\ sess[s].result = "ok"
        /\ BalanceIn(credit_wallets, "u1") = WalletRow("u1", 50, 2000)
        /\ Len(subscriptions) = 1

\* C15: with requests served one after the other, a record_subscription_payment
\* whose external_id has no transaction yet appends exactly one transaction of
\* kind "subscription" with that external_id, one whose external_id is already
\* recorded appends nothing, neither ends with an error, and a direct call
\* leaves wallets, subscriptions and the ledger as they were.
C15_RecordSubscriptionPayment ==
    /\ [][\A s \in Sessions :
            (Commits(s) /\ sess[s].svc = "record_subscription_payment") =>
                /\ IF ExternalIdTaken(sess[s].external_id)
                   THEN payment_transactions' = payment_transactions
                   ELSE /\ Len(payment_transactions') = Len(payment_transactions) + 1
                        /\ Last(payment_transactions').external_id = sess[s].external_id
                        /\ Last(payment_transactions').kind = "subscription"
                        /\ Last(payment_transactions').user_id = sess[s].user_id
                /\ sess[s].call = "record_subscription_payment" =>
                        /\ credit_wallets' = credit_wallets
                        /\ subscriptions' = subscriptions
                        /\ token_ledgers' = token_ledgers
         ]_vars
    /\ [](\A s \in Sessions :
            (sess[s].pc = "done" /\ sess[s].call = "record_subscription_payment")
                => sess[s].result = "ok")

\* a second record_subscription_payment with an external_id already recorded
\* for u1 has returned: it was made for u2 and recorded nothing
C15_Witness ==
    \E s \in Sessions :
        /\ sess[s].pc = "done" /\ sess[s].call = "record_subscription_payment"
        /\ sess[s].user_id = "u2" /\ sess[s].result = "ok"
        /\ Len(TransactionsOf(sess[s].external_id)) = 1
        /\ TransactionsOf(sess[s].external_id)[1].user_id = "u1"
        /\ TransactionsOf(sess[s].external_id)[1].kind = "subscription"
        /\ credit_wallets = <<>>

\* the deliveries of the whole-API specification
Deliveries == Payloads \cup ClassificationPayloads

\* the signature header is the HMAC-SHA256 of the body under the configured,
\* non-empty secret
SignedRight(p, g) ==
    /\ settings.CREEM_WEBHOOK_SECRET # ""
    /\ g = hmac_sha256(settings.CREEM_WEBHOOK_SECRET, p)

\* this step accepts a request on session s and the request is a webhook delivery
DeliveryAt(s) ==
    /\ calls' = calls + 1
    /\ ~Running(s)
    /\ sess'[s].call = "creem_webhook"

\* ... namely the delivery of body p with signature header g
Delivered(s, p, g) == sess'[s] = creem_webhook_dispatch(settings, p, g)

C17_IgnoredChangesNothing ==
    [][\A s \in Sessions :
         /\ DeliveryAt(s) =>
              \A p \in {"other_type", "no_user", "bad_user", "unknown_pack"} :
              \A g \in Signatures(p) :
                (SignedRight(p, g) /\ Delivered(s, p, g)) =>
                    /\ sess'[s].pc = "done" /\ sess'[s].result = "ignored"
                    /\ sess'[s].reason =
                         CASE p = "other_type" -> ""
                           [] p = "no_user" -> "missing_user_id"
                           [] p = "bad_user" -> "invalid_user_id"
                           [] p = "unknown_pack" -> "unknown_pack"
                    /\ tables' = tables
         /\ (sess'[s] # sess[s] /\ sess'[s].pc = "done"
                /\ sess'[s].call = "creem_webhook" /\ sess'[s].result = "ignored")
              => (tables' = tables /\ ~Running(s))
      ]_vars

\* a purchase of a product that matches no pack has been ignored while the
\* user's wallet and a transaction exist
C17_Witness ==
    \E s \in Sessions :
        /\ sess[s].pc = "done" /\ sess[s].call = "creem_webhook"
        /\ sess[s].result = "ignored" /\ sess[s].reason = "unknown_pack"
        /\ sess[s].external_id = "evt_unknown_pack"
        /\ RowsOfUser(credit_wallets, "u1") # <<>>
        /\ payment_transactions # <<>>

\* the bodies that carry a checkout.completed event with a usable user id
CheckoutsWithUser ==
    {"sub_u1", "pack_u1", "pack_u2", "unknown_pack", "sub_by_type", "sub_by_product"}

\* what the claim says the handler does with the event of body p
RoutedAsClaimed(s, p) ==
    LET event == parse_event(p)[1]
        product == event.object.product
        order == event.object.order
        billing_type == IF product.billing_type \in {None, ""} THEN order.type
                        ELSE product.billing_type
        recurring == \/ billing_type = "recurring"
                     \/ product.id = settings.CREEM_SUBSCRIPTION_PRODUCT_ID
        packs == settings.BILLING_CREDIT_PACKS
        matching == {i \in DOMAIN packs : packs[i].provider_product_id = product.id}
    IN IF recurring
       THEN /\ sess'[s].svc = "grant_monthly_allowance"
            /\ sess'[s].pc = "get_wallet_by_user_id"
            /\ sess'[s].external_id = event.id
       ELSE IF matching # {}
       THEN /\ sess'[s].svc = "apply_pack_purchase"
            /\ sess'[s].pc = "get_transaction_by_external_id"
            /\ \E i \in matching : /\ \A j \in matching : i <= j
                                  /\ sess'[s].credits = packs[i].credits
            /\ sess'[s].external_id = event.id
       ELSE /\ sess'[s].pc = "done" /\ sess'[s].result = "ignored"
            /\ sess'[s].reason = "unknown_pack"

\* C18: a correctly signed checkout.completed delivery with a usable user id
\* starts grant_monthly_allowance exactly when the billing type (of the
\* product, else of the order) is "recurring" or the product id is the
\* configured subscription product id, and otherwise starts apply_pack_purchase
\* with the credits of the first configured pack with that product id (or is
\* ignored as unknown_pack); the external_id is the event id.  On the
\* recurring path record_subscription_payment follows the grant, and the
\* commit leaves the allowance granted, a subscription row and one
\* "subscription" transaction under the event id; on the one-time path it
\* leaves one "credit_pack" transaction with the pack's credits.
C18_WebhookRouting ==
    [][\A s \in Sessions :
         /\ DeliveryAt(s) =>
              \A p \in CheckoutsWithUser : \A g \in Signatures(p) :
                 (SignedRight(p, g) /\ Delivered(s, p, g)) => RoutedAsClaimed(s, p)
         /\ (sess[s].call = "creem_webhook" /\ Running(s)
                /\ sess'[s].svc # sess[s].svc /\ sess'[s].pc # "done") =>
              /\ sess[s].svc = "grant_monthly_allowance"
              /\ sess[s].pc = "upsert_subscription"
              /\ sess'[s].svc = "record_subscription_payment"
         /\ (Commits(s) /\ sess[s].call = "creem_webhook") =>
              LET txns == SelectSeq(payment_transactions',
                                    LAMBDA r : r.external_id = sess[s].external_id)
              IN /\ sess[s].svc \in {"record_subscription_payment", "apply_pack_purchase"}
                 /\ Len(txns) = 1
                 /\ IF sess[s].svc = "apply_pack_purchase"
                    THEN /\ txns[1].kind = "credit_pack"
                         /\ ExternalIdTaken(sess[s].external_id)
                              \/ txns[1].credits_granted = sess[s].credits
                    ELSE /\ txns[1].kind = "subscription"
                         /\ BalanceIn(credit_wallets', sess[s].user_id).monthly_remaining
                              = settings.BILLING_MONTHLY_CREDITS
                         /\ RowsOfUser(subscriptions', sess[s].user_id) # <<>>
      ]_vars

\* an event whose product is the subscription product, though billed "onetime",
\* has been applied as a subscription payment
C18_Witness ==
    \E s \in Sessions :
        /\ sess[s].pc = "done" /\ sess[s].call = "creem_webhook"
        /\ sess[s].result = "ok" /\ sess[s].external_id = "evt_sub_by_product"
        /\ Len(TransactionsOf("evt_sub_by_product")) = 1
        /\ TransactionsOf("evt_sub_by_product")[1].kind = "subscription"
        /\ BalanceIn(credit_wallets, "u1").monthly_remaining = 50
        /\ Len(subscriptions) = 1

\* C19 (as claimed): every webhook delivery ends with a JSON answer: "ok",
\* "ignored", or the client error of a bad signature; no other exception
\* leaves the handler.
C19_NoExceptionEscapes ==
    \A s \in Sessions :
        (sess[s].pc = "done" /\ sess[s].call = "creem_webhook") =>
            sess[s].result \in {"ok", "ignored", "HTTP400"}

C21_ProviderFailureIsExternalServiceError ==
    \A s \in Sessions :
        (/\ sess[s].pc = "done" /\ sess[s].call = "create_checkout"
         /\ sess[s].checkout # <<>>
         /\ \/ Falsy(settings.CREEM_API_KEY)
            \/ sess[s].checkout[1].reply \in {"status_400", "timeout"})
        => sess[s].result = "ExternalServiceError"

\* C22 (as claimed): under every configuration, calculate_cost_credits returns
\* 0 for total_tokens <= 0 and a strictly positive integer for total_tokens > 0.
C22_CostPositive ==
    \A s \in Sessions :
        (sess[s].pc = "done" /\ sess[s].call = "calculate_cost_credits") =>
            IF sess[s].total_tokens <= 0 THEN sess[s].ret = <<0>>
            ELSE sess[s].ret[1] > 0

\* the multiplier the specification gives a model: its map entry, or the
\* map's default entry (1.0 when there is none), times MultiplierScale
ClaimedMultiplier(model_name) ==
    LET map == settings.BILLING_MODEL_MULTIPLIERS IN
    IF model_name \in DOMAIN map THEN map[model_name]
    ELSE IF "default" \in DOMAIN map THEN map["default"]
    ELSE MultiplierScale

\* C23 (as claimed): for total_tokens > 0, calculate_cost_credits returns the
\* least integer c with c * tokens_per_credit >= total_tokens * multiplier.
C23_CostIsLeastCover ==
    \A s \in Sessions :
        (/\ sess[s].pc = "done" /\ sess[s].call = "calculate_cost_credits"
         /\ sess[s].total_tokens > 0
         /\ settings.BILLING_TOKENS_PER_CREDIT >= 1) =>
            LET c == sess[s].ret[1]
                per_credit == settings.BILLING_TOKENS_PER_CREDIT * MultiplierScale
                due == sess[s].total_tokens * ClaimedMultiplier(sess[s].model_name)
            IN /\ c * per_credit >= due
               /\ (c - 1) * per_credit < due

\* the specification's estimate for a text of n characters
ClaimedEstimate(n) ==
    IF n = 0 THEN 0 ELSE Max(1, Ceil(n, settings.BILLING_CHARS_PER_TOKEN))

\* C24: with chars_per_token >= 1, estimate_tokens_from_text returns 0 for an
\* empty text and max(1, ceil(len(text) / chars_per_token)) otherwise, and
\* estimate_prompt_tokens returns that formula's value for the sum of the
\* lengths of the history contents and of the message; under every
\* configuration estimate_prompt_tokens equals estimate_tokens_from_text of a
\* text of that total length.
C24_EstimateFormula ==
    \A s \in Sessions : sess[s].pc = "done" =>
        LET total == SumSeq(sess[s].history_lens) + sess[s].text_len IN
        /\ (sess[s].call = "estimate_tokens_from_text"
              /\ settings.BILLING_CHARS_PER_TOKEN >= 1)
            => sess[s].ret = <<ClaimedEstimate(sess[s].text_len)>>
        /\ sess[s].call = "estimate_prompt_tokens" =>
            /\ settings.BILLING_CHARS_PER_TOKEN >= 1
                => sess[s].ret = <<ClaimedEstimate(total)>>
            /\ sess[s].ret = <<estimate_tokens_from_text(settings, total)>>

\* a prompt of 3 + 5 + 1 characters at 4 characters per token was estimated
\* at 3 tokens: the quotient 2.25 was rounded up
C24_Witness ==
    \E s \in Sessions :
        /\ sess[s].pc = "done" /\ sess[s].call = "estimate_prompt_tokens"
        /\ settings.BILLING_CHARS_PER_TOKEN = 4
        /\ sess[s].history_lens = <<3, 5>> /\ sess[s].text_len = 1
        /\ sess[s].ret = <<3>>

\* C25: under any interleaving of calls and webhook deliveries, every step
\* leaves the ledger rows that exist as they are; a step that changes the
\* ledger is the commit of a commit_usage call and appends exactly one row,
\* that call's; and every commit of a commit_usage call appends one.
C25_LedgerAppendOnly ==
    [][/\ Len(token_ledgers') >= Len(token_ledgers)
       /\ SubSeq(token_ledgers', 1, Len(token_ledgers)) = token_ledgers
       /\ token_ledgers' # token_ledgers =>
            \E s \in Sessions :
                /\ Commits(s) /\ sess[s].call = "commit_usage"
                /\ Len(token_ledgers') = Len(token_ledgers) + 1
                /\ Last(token_ledgers').user_id = sess[s].user_id
                /\ Last(token_ledgers').total_tokens = sess[s].total_tokens
       /\ \A s \in Sessions :
            (Commits(s) /\ sess[s].call = "commit_usage")
                => Len(token_ledgers') = Len(token_ledgers) + 1
      ]_vars

\* a usage was billed on an empty wallet and left an overage row; the row is
\* still there after a subscription delivery refilled the allowance and a
\* second usage was billed
C25_Witness ==
    /\ Len(token_ledgers) = 2
    /\ token_ledgers[1].overage_credits > 0
    /\ token_ledgers[2].overage_credits = 0
    /\ \E i \in DOMAIN payment_transactions :
            payment_transactions[i].external_id = "evt_sub"

\* C26 (as claimed): under any interleaving of grants for one user, the user
\* has at most one subscription row, and once a grant has committed, that row
\* holds the grant's provider subscription id, plan name and monthly credits.
C26_OneCurrentSubscription ==
    /\ [](\A u \in Users : Len(RowsOfUser(subscriptions, u)) <= 1)
    /\ [][\A s \in Sessions :
            (Commits(s) /\ sess[s].svc = "grant_monthly_allowance") =>
                LET rows == RowsOfUser(subscriptions', sess[s].user_id)
                IN /\ Len(rows) = 1
                   /\ rows[1].provider_subscription_id = sess[s].provider_subscription_id
                   /\ rows[1].plan_name = sess[s].plan_name
                   /\ rows[1].monthly_credits = settings.BILLING_MONTHLY_CREDITS
         ]_vars

\* the event that carries this event id
EventOfId(external_id) ==
    CHOOSE e \in {parse_event(p)[1] : p \in CheckoutsWithUser} : e.id = external_id

\* C27: with requests served one after the other, the first delivery of a
\* credit-pack checkout.completed event whose product id is that of a
\* configured pack adds that pack's credits to the user's prepaid_balance,
\* leaves monthly_remaining as it is and stores one credit_pack transaction
\* with the event's id, the pack's credits and the order amount divided by
\* 100; and no such delivery ends with an error.
C27_PackDeliveryCredits ==
    /\ [][\A s \in Sessions :
            (/\ Commits(s) /\ sess[s].call = "creem_webhook"
             /\ sess[s].svc = "apply_pack_purchase"
             /\ ~ExternalIdTaken(sess[s].external_id)) =>
                LET event == EventOfId(sess[s].external_id)
                    packs == settings.BILLING_CREDIT_PACKS
                    matching == {i \in DOMAIN packs :
                                    packs[i].provider_product_id = event.object.product.id}
                    pack == packs[CHOOSE i \in matching : \A j \in matching : i <= j]
                    minor == event.object.order.amount[1]
                    before == BalanceIn(credit_wallets, sess[s].user_id)
                    after == BalanceIn(credit_wallets', sess[s].user_id)
                    stored == Last(payment_transactions')
                IN /\ after.prepaid_balance = before.prepaid_balance + pack.credits
                   /\ after.monthly_remaining = before.monthly_remaining
                   /\ Len(payment_transactions') = Len(payment_transactions) + 1
                   /\ stored.kind = "credit_pack"
                   /\ stored.external_id = event.id
                   /\ stored.user_id = sess[s].user_id
                   /\ stored.credits_granted = pack.credits
                   /\ Len(stored.amount) = 2 /\ stored.amount[2] \in 0..99
                   /\ 100 * stored.amount[1] + stored.amount[2] = minor
         ]_vars
    /\ [](\A s \in Sessions :
            (/\ sess[s].pc = "done" /\ sess[s].call = "creem_webhook"
             /\ sess[s].svc = "apply_pack_purchase") => sess[s].result = "ok")

\* the 2000-credit pack bought for 990 cents was delivered to a user with a
\* fresh monthly allowance: 2000 prepaid credits, the allowance untouched, the
\* transaction stored with the amount 9.90
C27_Witness ==
    /\ BalanceIn(credit_wallets, "u1") = WalletRow("u1", 50, 2000)
    /\ \E i \in DOMAIN payment_transactions :
        /\ payment_transactions[i].external_id = "evt_pack"
        /\ payment_transactions[i].kind = "credit_pack"
        /\ payment_transactions[i].credits_granted = 2000
        /\ payment_transactions[i].amount = <<9, 90>>
    /\ \E s \in Sessions :
        /\ sess[s].pc = "done" /\ sess[s].call = "creem_webhook"
        /\ sess[s].external_id = "evt_pack" /\ sess[s].result = "ok"

\* C28: a chat turn whose precheck admitted its estimated tokens and whose
\* commit_usage, for no more tokens than estimated, finds the wallet row as
\* precheck saw it (which is the case when no other operation changed the
\* wallet in between) records overage_credits = 0 in its ledger row.
C28_AdmittedTurnHasNoOverage ==
    /\ [][\A s \in Sessions :
            (/\ sess[s].call = "chat_turn" /\ sess[s].svc = "commit_usage"
             /\ sess[s].pc = "update_wallet" /\ sess'[s].pc = "create_ledger_entry"
             /\ sess[s].wallet = sess[s].admitted)
                => sess'[s].overage = 0
         ]_vars
    /\ [][\A s \in Sessions :
            (Commits(s) /\ sess[s].call = "chat_turn" /\ sess[s].svc = "commit_usage")
                => /\ Len(token_ledgers') = Len(token_ledgers) + 1
                   /\ Last(token_ledgers').overage_credits = sess[s].overage
                   /\ Last(token_ledgers').total_tokens = sess[s].total_tokens
         ]_vars

\* ... while a commit_usage of another request between the turn's precheck
\* and its commit_usage leaves the turn with an overage: the allowance of 50
\* admitted 2500 tokens, the other request used 60000, and the turn's 2500
\* tokens were logged with 3 credits of overage
C28_Witness ==
    /\ \E s \in Sessions :
        /\ sess[s].pc = "done" /\ sess[s].call = "chat_turn"
        /\ sess[s].svc = "commit_usage" /\ sess[s].result = "ok"
        /\ sess[s].total_tokens = 2500
    /\ Len(token_ledgers) = 2
    /\ token_ledgers[1].total_tokens = 60000 /\ token_ledgers[1].overage_credits = 10
    /\ token_ledgers[2].total_tokens = 2500 /\ token_ledgers[2].overage_credits = 3

\* C29: with requests served one after the other, every step of a service
\* call or of a webhook delivery made for one user leaves the wallet row, the
\* ledger rows and the subscription rows of every other user as they are.
C29_UserIsolation ==
    [][\A s \in Sessions : sess'[s] # sess[s] =>
         \A u \in Users :
            (u # sess[s].user_id /\ u # sess'[s].user_id) =>
                /\ RowsOfUser(credit_wallets', u) = RowsOfUser(credit_wallets, u)
                /\ RowsOfUser(token_ledgers', u) = RowsOfUser(token_ledgers, u)
                /\ RowsOfUser(subscriptions', u) = RowsOfUser(subscriptions, u)
      ]_vars

\* u2's subscription was granted, then u1's: u2's wallet and subscription row
\* stand as u2's own grant left them
C29_Witness ==
    /\ BalanceIn(credit_wallets, "u2") = WalletRow("u2", 50, 0)
    /\ BalanceIn(credit_wallets, "u1") = WalletRow("u1", 50, 0)
    /\ Len(subscriptions) = 2
    /\ subscriptions[1].user_id = "u2" /\ subscriptions[2].user_id = "u1"
    /\ Quiet

\* the credits of the credit_pack transactions recorded for a user
PackCreditsOf(txns, user_id) ==
    LET rows == SelectSeq(RowsOfUser(txns, user_id), LAMBDA r : r.kind = "credit_pack")
    IN SumSeq([i \in DOMAIN rows |-> rows[i].credits_granted])

\* what the commit_usage committed in this step takes from the prepaid balance
\* of the user: min(prepaid_balance, cost - min(monthly_remaining, cost))
PrepaidDeducted(user_id) ==
    IF \E s \in Sessions :
            Commits(s) /\ sess[s].svc = "commit_usage" /\ sess[s].user_id = user_id
    THEN LET before == BalanceIn(credit_wallets, user_id)
             cost == Last(token_ledgers').cost_credits
         IN Min(before.prepaid_balance, cost - Min(before.monthly_remaining, cost))
    ELSE 0

\* C30: with requests served one after the other, every step changes a user's
\* prepaid_balance by the credits_granted of the credit_pack transactions the
\* step records for that user minus what a commit_usage committed in the step
\* takes from the prepaid balance; so the balance never exceeds the credits of
\* the user's recorded pack transactions, and a purchase whose transaction
\* insert fails after the wallet update leaves neither credits nor transaction.
C30_PrepaidAccounting ==
    /\ [](\A u \in Users :
            /\ BalanceIn(credit_wallets, u).prepaid_balance >= 0
            /\ BalanceIn(credit_wallets, u).prepaid_balance
                    <= PackCreditsOf(payment_transactions, u))
    /\ [][\A u \in Users :
            BalanceIn(credit_wallets', u).prepaid_balance
                - BalanceIn(credit_wallets, u).prepaid_balance
            = (PackCreditsOf(payment_transactions', u)
                    - PackCreditsOf(payment_transactions, u))
              - PrepaidDeducted(u)
         ]_vars

\* u1 bought a pack, used 3 credits of it, and a second purchase failed at
\* the transaction insert after its wallet update: the balance is the pack's
\* credits minus the usage, and the failed purchase has left no transaction
C30_Witness ==
    \E s \in Sessions :
        /\ sess[s].pc = "done" /\ sess[s].svc = "apply_pack_purchase"
        /\ sess[s].user_id = "u1"
        /\ sess[s].result = "DBAPIError(numeric field overflow)"
        /\ TransactionsOf(sess[s].external_id) = <<>>
        /\ BalanceIn(credit_wallets, "u1").prepaid_balance = 1997
        /\ PackCreditsOf(payment_transactions, "u1") = 2000

====
